---- MODULE Spec2Model ----
(***************************************************************************)
(* dnscat2 core: the client handshake of src/conn/handshake.rs and the     *)
(* packet codec of src/packet.rs.                                          *)
(*                                                                         *)
(* Byte strings are sequences of numbers 0..255.  An Option<T> is a        *)
(* sequence of length at most one: <<>> is None and <<x>> is Some(x).      *)
(* PacketFlags is the set of the bit weights that are set.                 *)
(***************************************************************************)
EXTENDS Integers, Sequences, FiniteSets, TLC

VARIABLES
    conn,               \* the Connection fields the handshake reads and writes
    conn0,              \* the Connection as it was handed to client_handshake
    prefer_server_name, \* the second argument of client_handshake
    pc,                 \* position in client_handshake
    attempt,            \* the local `attempt`
    sent,               \* SYN bodies handed to send_packet, in order
    replies,            \* outcomes of recv_packet, in order
    server_syn,         \* Option: the server SYN that broke the loop
    result,             \* outcome of the call
    pkt,                \* codec: the packet being encoded
    wire,               \* codec: the bytes produced by Packet::encode
    dec,                \* codec: outcome of Packet::decode on wire
    cpc,                \* codec: position of the codec run
    out                 \* codec: the bytes produced by encoding a decoded packet again

hvars == <<conn, conn0, prefer_server_name, pc, attempt, sent, replies, server_syn, result>>
cvars == <<pkt, wire, dec, cpc, out>>
vars == <<conn, conn0, prefer_server_name, pc, attempt, sent, replies, server_syn, result,
          pkt, wire, dec, cpc, out>>

-----------------------------------------------------------------------------
(* Bounds *)

\* largest recv_max_retry a connection is created with
MaxRetry == 3
\* cap on the local `attempt` counter (only reached when recv_max_retry = 0)
MaxAttempt == 5

-----------------------------------------------------------------------------
(* Option helpers *)

None == <<>>
Some(x) == <<x>>
IsSome(o) == Len(o) = 1
IsNone(o) == Len(o) = 0
Unwrap(o) == o[1]

-----------------------------------------------------------------------------
(* PacketFlags (bitflags! over u16) *)

NAME == 1
TUNNEL == 2
DATAGRAM == 4
DOWNLOAD == 8
CHUCKED_DOWNLOAD == 16
COMMAND == 32
ENCRYPTED == 64

AllFlags == {NAME, TUNNEL, DATAGRAM, DOWNLOAD, CHUCKED_DOWNLOAD, COMMAND, ENCRYPTED}

RECURSIVE SumSet(_)
SumSet(S) == IF S = {} THEN 0 ELSE LET x == CHOOSE y \in S : TRUE IN x + SumSet(S \ {x})

\* PacketFlags::bits
Bits(flags) == SumSet(flags)

\* from_bits_truncate keeping every bit of the u16
FromBitsUnchecked(raw) ==
    {f \in AllFlags \cup {128, 256, 512, 1024, 2048, 4096, 8192, 16384, 32768} :
        (raw \div f) % 2 = 1}

\* PacketFlags::from_bits_truncate
FromBitsTruncate(raw) == {f \in AllFlags : (raw \div f) % 2 = 1}

-----------------------------------------------------------------------------
(* Byte strings used as names and payloads *)

CLT == <<99, 108, 116>>
SRV == <<115, 114, 118>>
EmptyStr == <<>>

-----------------------------------------------------------------------------
(* SynBody *)

MkSyn(init_seq, flags, sess_name) ==
    [kind |-> "Syn", init_seq |-> init_seq, flags |-> flags, sess_name |-> sess_name]

\* SynBody::new with the two flag arguments taken in the other order
SynBodyNewSwapped(init_seq, command, encrypted) ==
    MkSyn(init_seq,
          (IF encrypted THEN {COMMAND} ELSE {}) \cup (IF command THEN {ENCRYPTED} ELSE {}),
          EmptyStr)

\* SynBody::new
SynBodyNew(init_seq, command, encrypted) ==
    MkSyn(init_seq,
          (IF command THEN {COMMAND} ELSE {}) \cup (IF encrypted THEN {ENCRYPTED} ELSE {}),
          EmptyStr)

\* SynBody::has_session_name
HasSessionName(syn) == NAME \in syn.flags

\* SynBody::session_name
SessionName(syn) == IF HasSessionName(syn) THEN Some(syn.sess_name) ELSE None

\* SynBody::set_session_name; the assert!(!sess_name.is_empty()) is SetSessionNamePanics
SetSessionNamePanics(sess_name) == Len(sess_name) = 0

SetSessionName(syn, sess_name) ==
    [syn EXCEPT !.flags = @ \cup {NAME}, !.sess_name = sess_name]

-----------------------------------------------------------------------------
(* Other session bodies, as recv_packet may return them *)

MkMsg(seq, ack, data) == [kind |-> "Msg", seq |-> seq, ack |-> ack, data |-> data]
MkFin(reason) == [kind |-> "Fin", reason |-> reason]
MkEnc(cryp_flags, body) == [kind |-> "Enc", cryp_flags |-> cryp_flags, body |-> body]
MkInit(x, y) == [kind |-> "Init", public_key_x |-> x, public_key_y |-> y]
MkAuth(a) == [kind |-> "Auth", authenticator |-> a]
MkPing(ping_id, data) == [kind |-> "Ping", ping_id |-> ping_id, data |-> data]

-----------------------------------------------------------------------------
(* The transport as the handshake sees it *)

\* initial sequences a server SYN carries
ServerSeqs == {0, 9}

\* SYN bodies SynBody::decode can produce: any defined flag, a name (possibly
\* empty) exactly when NAME is set
ServerSyns ==
    {MkSyn(s, f, n) : s \in ServerSeqs, f \in SUBSET {NAME, TUNNEL, COMMAND, ENCRYPTED},
                      n \in {EmptyStr, SRV}}
    \ {MkSyn(s, f, SRV) : s \in ServerSeqs, f \in SUBSET {TUNNEL, COMMAND, ENCRYPTED}}

OtherBodies ==
    {MkMsg(2, 3, SRV), MkFin(SRV), MkFin(EmptyStr), MkEnc(2, MkAuth(<<3>>)),
     MkEnc(0, MkInit(<<3>>, <<4>>))}

\* errors send_packet can return
SendErrors == {"Timeout", "Transport"}
\* errors recv_packet can return besides Timeout
RecvErrors == {"Transport", "PacketDecode"}

MkReply(err, body) == [err |-> err, body |-> body]
TimeoutReply == MkReply("Timeout", None)

\* outcome of the call
NoResult == [kind |-> "None", err |-> "", body |-> None]
OkResult == [kind |-> "Ok", err |-> "", body |-> None]
ErrResult(e) == [kind |-> "Err", err |-> e, body |-> None]
\* Unexpected losing the body it was given
UnexpectedResultNoBody(b) == [kind |-> "Err", err |-> "Unexpected", body |-> None]
UnexpectedResult(b) == [kind |-> "Err", err |-> "Unexpected", body |-> Some(b)]
PanicResult(m) == [kind |-> "Panic", err |-> m, body |-> None]

-----------------------------------------------------------------------------
(* client_handshake *)

SelfSeqs == {1, 65535}

Conns ==
    [self_seq : SelfSeqs, peer_seq : {0}, sess_name : {None, Some(CLT)},
     command : BOOLEAN, encrypted : BOOLEAN, recv_max_retry : 0..MaxRetry]

\* lines 16-20: the SYN built from the connection
BuildClientSyn(c) ==
    LET syn == SynBodyNew(c.self_seq, c.command, c.encrypted)
    IN IF IsSome(c.sess_name) THEN SetSessionName(syn, Unwrap(c.sess_name)) ELSE syn

\* the comparison of line 30 made one attempt late
RetryExhaustedLate(att, max) == att > max

\* line 30
RetryExhausted(att, max) == att = max

\* line 39 without the `conn.sess_name.is_none()` alternative
ShouldAdoptNameOnlyPrefer(c, prefer, syn) ==
    prefer /\ IsSome(SessionName(syn))

\* line 39
ShouldAdoptName(c, prefer, syn) ==
    (IsNone(c.sess_name) \/ prefer) /\ IsSome(SessionName(syn))

\* lines 39-44
AdoptName(c, prefer, syn) ==
    IF ShouldAdoptName(c, prefer, syn)
    THEN [c EXCEPT !.sess_name = SessionName(syn)]
    ELSE c

\* line 46 keeping a command flag the client asked for
SetCommandSticky(c, syn) == [c EXCEPT !.command = @ \/ (COMMAND \in syn.flags)]

\* line 46
SetCommand(c, syn) == [c EXCEPT !.command = (COMMAND \in syn.flags)]

\* line 48 rejecting only a server that lacks encryption the client asked for
EncryptionMismatchOneWay(c, syn) == c.encrypted /\ ~(ENCRYPTED \in syn.flags)

\* line 48
EncryptionMismatch(c, syn) == c.encrypted # (ENCRYPTED \in syn.flags)

\* line 52 writing the wrong sequence field
SetPeerSeqWrongField(c, syn) == [c EXCEPT !.self_seq = syn.init_seq]

\* line 52
SetPeerSeq(c, syn) == [c EXCEPT !.peer_seq = syn.init_seq]

HInit ==
    /\ conn \in Conns
    /\ conn0 = conn
    /\ prefer_server_name \in BOOLEAN
    /\ pc = "start"
    /\ attempt = 0
    /\ sent = <<>>
    /\ replies = <<>>
    /\ server_syn = None
    /\ result = NoResult

CIdle ==
    /\ pkt = None
    /\ wire = <<>>
    /\ dec = None
    /\ cpc = "idle"
    /\ out = <<>>

Init == HInit /\ CIdle

\* lines 11-12 and 57-67: the encryption handshake is unimplemented!()
ClientEncryptionHandshake ==
    /\ pc = "start"
    /\ conn.encrypted
    /\ pc' = "done"
    /\ result' = PanicResult("not implemented")
    /\ UNCHANGED <<conn, conn0, prefer_server_name, attempt, sent, replies, server_syn>>
    /\ UNCHANGED cvars

\* line 14 with the counter started at 0
EnterLoopFromZero ==
    /\ pc = "start"
    /\ ~conn.encrypted
    /\ attempt' = 0
    /\ pc' = "send"
    /\ UNCHANGED <<conn, conn0, prefer_server_name, sent, replies, server_syn, result>>
    /\ UNCHANGED cvars

\* lines 11-14 with the `if conn.is_encrypted()` step left out
EnterLoopSkipsEncryption ==
    /\ pc = "start"
    /\ attempt' = 1
    /\ pc' = "send"
    /\ UNCHANGED <<conn, conn0, prefer_server_name, sent, replies, server_syn, result>>
    /\ UNCHANGED cvars

\* lines 11-14: not encrypted, enter the loop
EnterLoop ==
    /\ pc = "start"
    /\ ~conn.encrypted
    /\ attempt' = 1
    /\ pc' = "send"
    /\ UNCHANGED <<conn, conn0, prefer_server_name, sent, replies, server_syn, result>>
    /\ UNCHANGED cvars

\* lines 16-22 handing the SYN to the transport twice before the receive
SendSynTwice ==
    /\ pc = "send"
    /\ IF IsSome(conn.sess_name) /\ SetSessionNamePanics(Unwrap(conn.sess_name))
       THEN /\ pc' = "done"
            /\ result' = PanicResult("session name is empty")
            /\ sent' = sent
       ELSE /\ sent' = Append(Append(sent, BuildClientSyn(conn)), BuildClientSyn(conn))
            /\ pc' = "recv"
            /\ result' = result
    /\ UNCHANGED <<conn, conn0, prefer_server_name, attempt, replies, server_syn>>
    /\ UNCHANGED cvars

\* lines 16-22 with send_packet returning Ok
SendSyn ==
    /\ pc = "send"
    /\ IF IsSome(conn.sess_name) /\ SetSessionNamePanics(Unwrap(conn.sess_name))
       THEN /\ pc' = "done"
            /\ result' = PanicResult("session name is empty")
            /\ sent' = sent
       ELSE /\ sent' = Append(sent, BuildClientSyn(conn))
            /\ pc' = "recv"
            /\ result' = result
    /\ UNCHANGED <<conn, conn0, prefer_server_name, attempt, replies, server_syn>>
    /\ UNCHANGED cvars

\* lines 16-22 with send_packet returning Err: the `?` returns it
SendSynFails ==
    /\ pc = "send"
    /\ ~(IsSome(conn.sess_name) /\ SetSessionNamePanics(Unwrap(conn.sess_name)))
    /\ \E e \in SendErrors :
         /\ sent' = Append(sent, BuildClientSyn(conn))
         /\ result' = ErrResult(e)
         /\ pc' = "done"
    /\ UNCHANGED <<conn, conn0, prefer_server_name, attempt, replies, server_syn>>
    /\ UNCHANGED cvars

\* lines 24-26 and 38-54: a SYN arrives, the loop breaks and the state is reconciled
RecvSyn ==
    /\ pc = "recv"
    /\ \E syn \in ServerSyns :
         LET c1 == SetCommand(AdoptName(conn, prefer_server_name, syn), syn)
         IN /\ replies' = Append(replies, MkReply("", Some(syn)))
            /\ server_syn' = Some(syn)
            /\ IF EncryptionMismatch(c1, syn)
               THEN /\ conn' = c1
                    /\ result' = ErrResult("EncryptionMismatch")
               ELSE /\ conn' = SetPeerSeq(c1, syn)
                    /\ result' = OkResult
            /\ pc' = "done"
    /\ UNCHANGED <<conn0, prefer_server_name, attempt, sent>>
    /\ UNCHANGED cvars

\* lines 25-28: any other session body
RecvUnexpected ==
    /\ pc = "recv"
    /\ \E body \in OtherBodies :
         /\ replies' = Append(replies, MkReply("", Some(body)))
         /\ result' = UnexpectedResult(body)
    /\ pc' = "done"
    /\ UNCHANGED <<conn, conn0, prefer_server_name, attempt, sent, server_syn>>
    /\ UNCHANGED cvars

\* lines 29-34 with the retry advancing the connection's own sequence number
RecvTimeoutBumpsSeq ==
    /\ pc = "recv"
    /\ replies' = Append(replies, TimeoutReply)
    /\ IF RetryExhausted(attempt, conn.recv_max_retry)
       THEN /\ result' = ErrResult("Timeout")
            /\ pc' = "done"
            /\ attempt' = attempt
            /\ conn' = conn
       ELSE /\ attempt < MaxAttempt
            /\ attempt' = attempt + 1
            /\ pc' = "send"
            /\ result' = result
            /\ conn' = [conn EXCEPT !.self_seq = (@ + 1) % 65536]
    /\ UNCHANGED <<conn0, prefer_server_name, sent, server_syn>>
    /\ UNCHANGED cvars

\* lines 29-34: Timeout
RecvTimeout ==
    /\ pc = "recv"
    /\ replies' = Append(replies, TimeoutReply)
    /\ IF RetryExhausted(attempt, conn.recv_max_retry)
       THEN /\ result' = ErrResult("Timeout")
            /\ pc' = "done"
            /\ attempt' = attempt
       ELSE /\ attempt < MaxAttempt
            /\ attempt' = attempt + 1
            /\ pc' = "send"
            /\ result' = result
    /\ UNCHANGED <<conn, conn0, prefer_server_name, sent, server_syn>>
    /\ UNCHANGED cvars

\* line 35 folded into the Timeout arm: the error is retried
RecvErrorRetried ==
    /\ pc = "recv"
    /\ \E e \in RecvErrors :
         /\ replies' = Append(replies, MkReply(e, None))
         /\ IF RetryExhausted(attempt, conn.recv_max_retry)
            THEN /\ result' = ErrResult(e)
                 /\ pc' = "done"
                 /\ attempt' = attempt
            ELSE /\ attempt < MaxAttempt
                 /\ attempt' = attempt + 1
                 /\ pc' = "send"
                 /\ result' = result
    /\ UNCHANGED <<conn, conn0, prefer_server_name, sent, server_syn>>
    /\ UNCHANGED cvars

\* line 35: any other error
RecvError ==
    /\ pc = "recv"
    /\ \E e \in RecvErrors :
         /\ replies' = Append(replies, MkReply(e, None))
         /\ result' = ErrResult(e)
    /\ pc' = "done"
    /\ UNCHANGED <<conn, conn0, prefer_server_name, attempt, sent, server_syn>>
    /\ UNCHANGED cvars

Next ==
    \/ ClientEncryptionHandshake
    \/ EnterLoop
    \/ SendSyn
    \/ SendSynFails
    \/ RecvSyn
    \/ RecvUnexpected
    \/ RecvTimeout
    \/ RecvError

Spec == Init /\ [][Next]_vars

-----------------------------------------------------------------------------
(* Byte parsers and hex codec (crate::util::parse, crate::util::hex) *)

DecOk(v, rest) == [ok |-> TRUE, val |-> Some(v), rest |-> rest, err |-> "", arg |-> 0]
DecErr(e, a) == [ok |-> FALSE, val |-> None, rest |-> <<>>, err |-> e, arg |-> a]

Drop(b, n) == SubSeq(b, n + 1, Len(b))
Take(b, n) == SubSeq(b, 1, n)

\* BufMut::put_u16 (big-endian) and put_u8
PutU16(v) == <<v \div 256, v % 256>>
PutU8(v) == <<v>>

\* parse::be_u8
BeU8(b) == IF Len(b) < 1 THEN DecErr("Incomplete", 1 - Len(b)) ELSE DecOk(b[1], Drop(b, 1))

\* parse::be_u16
BeU16(b) ==
    IF Len(b) < 2 THEN DecErr("Incomplete", 2 - Len(b))
    ELSE DecOk(b[1] * 256 + b[2], Drop(b, 2))

\* str::from_utf8 for the code points the model uses, U+0000..U+07FF: a byte
\* below 0x80, or a lead byte 0xC2..0xDF and one continuation byte 0x80..0xBF
RECURSIVE Utf8Valid(_)
Utf8Valid(s) ==
    IF Len(s) = 0 THEN TRUE
    ELSE IF s[1] < 128 THEN Utf8Valid(Drop(s, 1))
    ELSE IF s[1] \in 194..223 /\ Len(s) >= 2 /\ s[2] \in 128..191 THEN Utf8Valid(Drop(s, 2))
    ELSE FALSE

\* parse::nt_string: the bytes before the first 0x00; the terminator is consumed
NtString(b) ==
    LET nul == {i \in 1..Len(b) : b[i] = 0}
    IN IF nul = {} THEN DecErr("NoNullTerm", 0)
       ELSE LET len == (CHOOSE i \in nul : \A j \in nul : i <= j) - 1
            IN IF Utf8Valid(Take(b, len))
               THEN DecOk(Take(b, len), Drop(b, len + 1))
               ELSE DecErr("Utf8", 0)

\* lowercase hex digit of a nibble
HexChar(n) == IF n < 10 THEN 48 + n ELSE 87 + n

\* value of a hex digit, -1 when the byte is none
HexVal(c) ==
    IF c \in 48..57 THEN c - 48
    ELSE IF c \in 97..102 THEN c - 87
    ELSE IF c \in 65..70 THEN c - 55
    ELSE 0 - 1

\* hex::encode_into_buf: two lowercase digits per byte
HexEncode(src) ==
    [i \in 1..(2 * Len(src)) |->
        IF i % 2 = 1 THEN HexChar(src[(i + 1) \div 2] \div 16)
        ELSE HexChar(src[i \div 2] % 16)]

IsHex(h) == Len(h) % 2 = 0 /\ \A i \in 1..Len(h) : HexVal(h[i]) >= 0

\* hex decode of a valid even-length digit string
HexDecode(h) == [i \in 1..(Len(h) \div 2) |-> HexVal(h[2 * i - 1]) * 16 + HexVal(h[2 * i])]

\* the prefix of s before its first zero byte
UntilZero(s) ==
    LET z == {i \in 1..Len(s) : s[i] = 0}
    IN IF z = {} THEN s ELSE Take(s, (CHOOSE i \in z : \A j \in z : i <= j) - 1)

\* parse::np_hex_string: a field of `size` bytes holding hex digits and then
\* 0x00 padding (as the ENC test vectors of packet.rs:1116-1119 have it); the
\* decoded bytes are cut at the first zero byte
NpHexString(b, size) ==
    IF Len(b) < size THEN DecErr("Incomplete", size - Len(b))
    ELSE LET hex == UntilZero(Take(b, size))
         IN IF IsHex(hex) THEN DecOk(UntilZero(HexDecode(hex)), Drop(b, size))
            ELSE DecErr("Hex", 0)

-----------------------------------------------------------------------------
(* Packet codec (src/packet.rs) *)

PART_SIZE == 32

MkKind(tag, v) == [tag |-> tag, v |-> v]
KindSYN == MkKind("SYN", 0)
KindMSG == MkKind("MSG", 1)
KindFIN == MkKind("FIN", 2)
KindENC == MkKind("ENC", 3)
KindPING == MkKind("PING", 255)

\* impl From<PacketKind> for u8
KindToU8(kind) == kind.v

\* impl From<u8> for PacketKind
KindFromU8(v) ==
    CASE v = 0 -> KindSYN
      [] v = 1 -> KindMSG
      [] v = 2 -> KindFIN
      [] v = 3 -> KindENC
      [] v = 255 -> KindPING
      [] OTHER -> MkKind("Other", v)

\* PacketKind::is_session_framed
IsSessionFramed(kind) == kind.tag \in {"SYN", "MSG", "FIN", "ENC"}

MkFrame(id, body) == [kind |-> "Session", id |-> id, body |-> body]
MkPacket(id, body) == [id |-> id, body |-> body]

\* packet_kind of the body variants
PacketKind(body) ==
    CASE body.kind = "Ping" -> KindPING
      [] body.kind = "Session" ->
            (CASE body.body.kind = "Syn" -> KindSYN
               [] body.body.kind = "Msg" -> KindMSG
               [] body.body.kind = "Fin" -> KindFIN
               [] body.body.kind = "Enc" -> KindENC)

\* SynBody::encode writing the name field whether or not NAME is set
SynEncodeNameAlways(syn) ==
    PutU16(syn.init_seq) \o PutU16(Bits(syn.flags)) \o syn.sess_name \o PutU8(0)

\* impl Encode for SynBody
SynEncode(syn) ==
    PutU16(syn.init_seq) \o PutU16(Bits(syn.flags))
        \o (IF HasSessionName(syn) THEN syn.sess_name \o PutU8(0) ELSE <<>>)

\* impl Decode for SynBody
SynDecode(b) ==
    LET r1 == BeU16(b) IN
    IF ~r1.ok THEN r1 ELSE
    LET r2 == BeU16(r1.rest) IN
    IF ~r2.ok THEN r2 ELSE
    LET flags == FromBitsTruncate(Unwrap(r2.val)) IN
    IF NAME \in flags
    THEN LET r3 == NtString(r2.rest)
         IN IF ~r3.ok THEN r3
            ELSE DecOk(MkSyn(Unwrap(r1.val), flags, Unwrap(r3.val)), r3.rest)
    ELSE DecOk(MkSyn(Unwrap(r1.val), flags, EmptyStr), r2.rest)

\* impl Encode for MsgBody
MsgEncode(m) == PutU16(m.seq) \o PutU16(m.ack) \o m.data

\* impl Decode for MsgBody: data is the whole rest of the buffer
MsgDecode(b) ==
    LET r1 == BeU16(b) IN
    IF ~r1.ok THEN r1 ELSE
    LET r2 == BeU16(r1.rest) IN
    IF ~r2.ok THEN r2 ELSE
    DecOk(MkMsg(Unwrap(r1.val), Unwrap(r2.val), r2.rest), <<>>)

\* impl Encode for FinBody
FinEncode(f) == f.reason \o PutU8(0)

\* impl Decode for FinBody
FinDecode(b) ==
    LET r == NtString(b) IN
    IF ~r.ok THEN r ELSE DecOk(MkFin(Unwrap(r.val)), r.rest)

\* encode_part filling the field with the ASCII digit '0'
EncodePartAsciiPad(part) ==
    LET hex == HexEncode(part)
    IN [i \in 1..PART_SIZE |-> IF i <= Len(hex) THEN hex[i] ELSE 48]

\* encode_part without the resize to PART_SIZE
EncodePartUnsized(part) == HexEncode(part)

\* EncBodyVariant::encode_part: the hex digits, cut or filled with 0x00 to PART_SIZE
EncodePart(part) ==
    LET hex == HexEncode(part)
    IN [i \in 1..PART_SIZE |-> IF i <= Len(hex) THEN hex[i] ELSE 0]

\* EncBodyVariant::decode_part
DecodePart(b) == NpHexString(b, PART_SIZE)

\* EncBodyKind as u8
EncKindToU8(v) == IF v.kind = "Init" THEN 0 ELSE 1

\* impl Encode for EncBodyVariant
EncVariantEncode(v) ==
    IF v.kind = "Init"
    THEN EncodePart(v.public_key_x) \o EncodePart(v.public_key_y)
    ELSE EncodePart(v.authenticator)

\* EncBodyVariant::decode_kind
EncVariantDecodeKind(enc_kind, b) ==
    IF enc_kind = 0
    THEN LET x == DecodePart(b) IN
         IF ~x.ok THEN x ELSE
         LET y == DecodePart(x.rest) IN
         IF ~y.ok THEN y ELSE DecOk(MkInit(Unwrap(x.val), Unwrap(y.val)), y.rest)
    ELSE LET a == DecodePart(b) IN
         IF ~a.ok THEN a ELSE DecOk(MkAuth(Unwrap(a.val)), a.rest)

\* EncBody::encode writing the crypto flags ahead of the kind byte
EncEncodeFlagsFirst(e) ==
    PutU16(e.cryp_flags) \o PutU8(EncKindToU8(e.body)) \o EncVariantEncode(e.body)

\* impl Encode for EncBody
EncEncode(e) == PutU8(EncKindToU8(e.body)) \o PutU16(e.cryp_flags) \o EncVariantEncode(e.body)

\* impl Decode for EncBody (EncBodyKind::from_u8 knows 0x00 and 0x01)
EncDecode(b) ==
    LET k == BeU8(b) IN
    IF ~k.ok THEN k ELSE
    IF Unwrap(k.val) \notin {0, 1} THEN DecErr("UnknownEncKind", Unwrap(k.val)) ELSE
    LET f == BeU16(k.rest) IN
    IF ~f.ok THEN f ELSE
    LET v == EncVariantDecodeKind(Unwrap(k.val), f.rest) IN
    IF ~v.ok THEN v ELSE DecOk(MkEnc(Unwrap(f.val), Unwrap(v.val)), v.rest)

\* impl Encode for PingBody
PingEncode(p) == PutU16(p.ping_id) \o p.data \o PutU8(0)

\* impl Decode for PingBody
PingDecode(b) ==
    LET i == BeU16(b) IN
    IF ~i.ok THEN i ELSE
    LET d == NtString(i.rest) IN
    IF ~d.ok THEN d ELSE DecOk(MkPing(Unwrap(i.val), Unwrap(d.val)), d.rest)

\* impl Encode for SupportedSessionBody
SessionBodyEncode(body) ==
    CASE body.kind = "Syn" -> SynEncode(body)
      [] body.kind = "Msg" -> MsgEncode(body)
      [] body.kind = "Fin" -> FinEncode(body)
      [] body.kind = "Enc" -> EncEncode(body)

\* SupportedSessionBody::decode_kind
SessionBodyDecodeKind(kind, b) ==
    CASE kind.tag = "SYN" -> SynDecode(b)
      [] kind.tag = "MSG" -> MsgDecode(b)
      [] kind.tag = "FIN" -> FinDecode(b)
      [] kind.tag = "ENC" -> EncDecode(b)
      [] OTHER -> DecErr("UnknownKind", KindToU8(kind))

\* SessionBodyFrame::encode leaving the session id out
FrameEncodeNoId(frame) == SessionBodyEncode(frame.body)

\* impl Encode for SessionBodyFrame
FrameEncode(frame) == PutU16(frame.id) \o SessionBodyEncode(frame.body)

\* SessionBodyFrame::decode_kind
FrameDecodeKind(kind, b) ==
    LET i == BeU16(b) IN
    IF ~i.ok THEN i ELSE
    LET body == SessionBodyDecodeKind(kind, i.rest) IN
    IF ~body.ok THEN body ELSE DecOk(MkFrame(Unwrap(i.val), Unwrap(body.val)), body.rest)

\* impl Encode for SupportedBody
BodyEncode(body) == IF body.kind = "Ping" THEN PingEncode(body) ELSE FrameEncode(body)

\* SupportedBody::decode_kind with no third arm: all but PING is session framed
BodyDecodeKindFramesOther(kind, b) ==
    IF kind.tag = "PING" THEN PingDecode(b) ELSE FrameDecodeKind(kind, b)

\* SupportedBody::decode_kind
BodyDecodeKind(kind, b) ==
    IF kind.tag = "PING" THEN PingDecode(b)
    ELSE IF IsSessionFramed(kind) THEN FrameDecodeKind(kind, b)
    ELSE DecErr("UnknownKind", KindToU8(kind))

\* impl Encode for Packet
PacketEncode(p) == PutU16(p.id) \o PutU8(KindToU8(PacketKind(p.body))) \o BodyEncode(p.body)

\* impl Decode for Packet
PacketDecode(b) ==
    LET i == BeU16(b) IN
    IF ~i.ok THEN i ELSE
    LET k == BeU8(i.rest) IN
    IF ~k.ok THEN k ELSE
    LET body == BodyDecodeKind(KindFromU8(Unwrap(k.val)), k.rest) IN
    IF ~body.ok THEN body ELSE DecOk(MkPacket(Unwrap(i.val), Unwrap(body.val)), body.rest)

-----------------------------------------------------------------------------
(* One run of the codec: a packet built with the public constructors is
   encoded, and the bytes are decoded again *)

\* longest string or MSG payload, in characters
MaxStrLen == 2
\* longest ENC hex part, in bytes
MaxPartLen == 17

\* the characters strings are made of: NUL, 'a', 'h' and U+00E9
Chars == {<<0>>, <<97>>, <<104>>, <<195, 169>>}

RECURSIVE StrsOfLen(_)
StrsOfLen(n) ==
    IF n = 0 THEN {<<>>} ELSE {c \o t : c \in Chars, t \in StrsOfLen(n - 1)}

\* every String of at most MaxStrLen characters
StrVals == UNION {StrsOfLen(n) : n \in 0..MaxStrLen}

\* MSG payloads: any bytes
DataVals == UNION {[1..n -> {0, 97, 255}] : n \in 0..MaxStrLen}

Rep(b, n) == [i \in 1..n |-> b]

\* ENC hex parts: runs of one byte of every length, and some mixed ones
PartVals ==
    {Rep(b, n) : b \in {3, 171}, n \in 0..MaxPartLen}
        \cup {Rep(0, 1), Rep(0, 16), <<3, 0, 4>>, <<0, 3>>, Rep(3, 15) \o <<0>>, Rep(3, 16) \o <<4>>}

PacketIds == {1, 4660}
SessionIds == {1, 65534}

\* SynBody::new then, optionally, set_session_name with a nonempty name
SynVals ==
    {SynBodyNew(s, c, e) : s \in SelfSeqs, c \in BOOLEAN, e \in BOOLEAN}
        \cup {SetSessionName(SynBodyNew(s, c, e), n) :
                s \in SelfSeqs, c \in BOOLEAN, e \in BOOLEAN, n \in StrVals \ {EmptyStr}}

MsgVals == {MkMsg(2, a, d) : a \in {3, 768}, d \in DataVals}
FinVals == {MkFin(r) : r \in StrVals}
EncVals ==
    {MkEnc(f, MkInit(x, y)) : f \in {2}, x \in PartVals, y \in PartVals}
        \cup {MkEnc(f, MkAuth(a)) : f \in {2, 513}, a \in PartVals}
PingVals == {MkPing(i, d) : i \in {2}, d \in StrVals}

\* Packet::new over Ping and Session frames
PacketVals ==
    {MkPacket(i, b) : i \in PacketIds, b \in PingVals}
        \cup {MkPacket(i, MkFrame(sid, b)) :
                i \in PacketIds, sid \in SessionIds,
                b \in SynVals \cup MsgVals \cup FinVals \cup EncVals}

\* the handshake is not running
HIdle ==
    /\ conn = [self_seq |-> 1, peer_seq |-> 0, sess_name |-> None, command |-> FALSE,
               encrypted |-> FALSE, recv_max_retry |-> 1]
    /\ conn0 = conn
    /\ prefer_server_name = FALSE
    /\ pc = "idle"
    /\ attempt = 0
    /\ sent = <<>>
    /\ replies = <<>>
    /\ server_syn = None
    /\ result = NoResult

CodecInit ==
    /\ HIdle
    /\ pkt \in {Some(p) : p \in PacketVals}
    /\ wire = <<>>
    /\ dec = None
    /\ cpc = "new"
    /\ out = <<>>

\* Packet::encode into an empty buffer
CodecEncode ==
    /\ cpc = "new"
    /\ wire' = PacketEncode(Unwrap(pkt))
    /\ cpc' = "encoded"
    /\ UNCHANGED <<pkt, dec, out>>
    /\ UNCHANGED hvars

\* Packet::decode of the encoded bytes; dec.rest is what is left of the buffer
CodecDecode ==
    /\ cpc = "encoded"
    /\ dec' = Some(PacketDecode(wire))
    /\ cpc' = "decoded"
    /\ UNCHANGED <<pkt, wire, out>>
    /\ UNCHANGED hvars

CodecNext == CodecEncode \/ CodecDecode

SpecCodec == CodecInit /\ [][CodecNext]_vars

-----------------------------------------------------------------------------
(* LazyPacket = Packet<SupportedBody<SessionBodyBytes>> *)

\* SessionBodyBytes
MkLazy(kind, bytes) == [kind |-> "Lazy", pkind |-> kind, bytes |-> bytes]

\* impl Encode for SessionBodyBytes
LazyBodyEncode(body) == body.bytes

\* SessionBodyBytes::decode_kind copying the bytes without advancing the buffer
LazyBodyDecodeKindPeek(kind, b) == DecOk(MkLazy(kind, b), b)

\* SessionBodyBytes::decode_kind: b.to_bytes() takes all that is left
LazyBodyDecodeKind(kind, b) == DecOk(MkLazy(kind, b), <<>>)

\* SessionBodyFrame<SessionBodyBytes>::encode
LazyFrameEncode(frame) == PutU16(frame.id) \o LazyBodyEncode(frame.body)

\* SessionBodyFrame<SessionBodyBytes>::decode_kind
LazyFrameDecodeKind(kind, b) ==
    LET i == BeU16(b) IN
    IF ~i.ok THEN i ELSE
    LET body == LazyBodyDecodeKind(kind, i.rest) IN
    IF ~body.ok THEN body ELSE DecOk(MkFrame(Unwrap(i.val), Unwrap(body.val)), body.rest)

\* SupportedBody<SessionBodyBytes>::packet_kind
LazyPacketKind(body) == IF body.kind = "Ping" THEN KindPING ELSE body.body.pkind

\* SupportedBody<SessionBodyBytes>::encode
LazySupportedEncode(body) ==
    IF body.kind = "Ping" THEN PingEncode(body) ELSE LazyFrameEncode(body)

\* SupportedBody<SessionBodyBytes>::decode_kind
LazySupportedDecodeKind(kind, b) ==
    IF kind.tag = "PING" THEN PingDecode(b)
    ELSE IF IsSessionFramed(kind) THEN LazyFrameDecodeKind(kind, b)
    ELSE DecErr("UnknownKind", KindToU8(kind))

\* LazyPacket::encode
LazyPacketEncode(p) ==
    PutU16(p.id) \o PutU8(KindToU8(LazyPacketKind(p.body))) \o LazySupportedEncode(p.body)

\* LazyPacket::decode
LazyPacketDecode(b) ==
    LET i == BeU16(b) IN
    IF ~i.ok THEN i ELSE
    LET k == BeU8(i.rest) IN
    IF ~k.ok THEN k ELSE
    LET body == LazySupportedDecodeKind(KindFromU8(Unwrap(k.val)), k.rest) IN
    IF ~body.ok THEN body ELSE DecOk(MkPacket(Unwrap(i.val), Unwrap(body.val)), body.rest)

-----------------------------------------------------------------------------
(* One run of the codec on received bytes: the bytes are decoded, strictly or
   lazily, and the decoded packet is encoded again *)

Prefixes(b) == {Take(b, n) : n \in 0..Len(b)}

\* packet id and session id fields on the wire
WireIds == {<<0, 1>>, <<18, 52>>}
WireSids == {<<0, 1>>, <<255, 254>>}

\* what may follow where a null-terminated string is read: none, an empty
\* string, "s", "s" with a byte after it, no terminator, U+00E9, bad UTF-8
NameTails == {<<>>, <<0>>, <<115, 0>>, <<115, 0, 7>>, <<115>>, <<195, 169, 0>>, <<200, 0>>}

\* the two bytes of the SYN flags field
FlagHighs == {0, 1, 255}
FlagLows == {0, 1, 2, 3, 16, 32, 33, 64, 96, 127, 128, 129, 255}

SynWires ==
    {<<0, 9>> \o <<hi, lo>> \o t : hi \in FlagHighs, lo \in FlagLows, t \in NameTails}
MsgWires == {<<0, 2>> \o <<3, 0>> \o d : d \in DataVals} \cup {<<0, 2, 3>>}
FinWires == NameTails

\* 32-byte ENC fields: lowercase, 0x00-padded, uppercase, '0'-padded, all
\* 0x00, not hex, and one that is a byte short
HexFields ==
    {HexEncode(Rep(3, 16)), HexEncode(Rep(171, 15)) \o <<0, 0>>,
     [i \in 1..PART_SIZE |-> IF i % 2 = 1 THEN 65 ELSE 66],
     HexEncode(Rep(3, 15)) \o <<48, 48>>, Rep(0, PART_SIZE), Rep(122, PART_SIZE),
     Rep(51, PART_SIZE - 1)}

EncWires ==
    {<<0>> \o <<0, 2>> \o x \o y : x \in HexFields, y \in HexFields}
        \cup {<<k>> \o <<0, 2>> \o a : k \in {1, 2}, a \in HexFields}
        \cup {<<>>, <<1, 0>>}

PingWires == {<<0, 2>> \o t : t \in NameTails}

\* bodies put after a kind byte no PacketKind but Other has
OtherWires == {<<>>, <<0, 1, 0, 9, 0, 0>>}

KnownKindBytes == {0, 1, 2, 3, 255}

WireVals ==
    {i \o <<0>> \o sid \o b : i \in WireIds, sid \in WireSids, b \in SynWires}
        \cup {i \o <<1>> \o sid \o b : i \in WireIds, sid \in WireSids, b \in MsgWires}
        \cup {i \o <<2>> \o sid \o b : i \in WireIds, sid \in WireSids, b \in FinWires}
        \cup {i \o <<3>> \o sid \o b : i \in WireIds, sid \in WireSids, b \in EncWires}
        \cup {i \o <<255>> \o b : i \in WireIds, b \in PingWires}
        \cup {i \o <<k>> \o b : i \in WireIds, k \in (0..255) \ KnownKindBytes, b \in OtherWires}
        \cup Prefixes(<<0, 1, 0, 0, 1, 0, 1, 0, 1, 104, 0>>)

WireInit ==
    /\ HIdle
    /\ pkt = None
    /\ wire \in WireVals
    /\ dec = None
    /\ cpc = "bytes"
    /\ out = <<>>

\* Packet::decode of the received bytes
WireDecode ==
    /\ cpc = "bytes"
    /\ dec' = Some(PacketDecode(wire))
    /\ cpc' = "decoded"
    /\ UNCHANGED <<pkt, wire, out>>
    /\ UNCHANGED hvars

\* Packet::encode of the packet that was decoded
WireEncode ==
    /\ cpc = "decoded"
    /\ Unwrap(dec).ok
    /\ out' = PacketEncode(Unwrap(Unwrap(dec).val))
    /\ cpc' = "reencoded"
    /\ UNCHANGED <<pkt, wire, dec>>
    /\ UNCHANGED hvars

\* LazyPacket::decode of the received bytes
WireLazyDecode ==
    /\ cpc = "bytes"
    /\ dec' = Some(LazyPacketDecode(wire))
    /\ cpc' = "lazy_decoded"
    /\ UNCHANGED <<pkt, wire, out>>
    /\ UNCHANGED hvars

\* LazyPacket::encode of the lazy packet that was decoded
WireLazyEncode ==
    /\ cpc = "lazy_decoded"
    /\ Unwrap(dec).ok
    /\ out' = LazyPacketEncode(Unwrap(Unwrap(dec).val))
    /\ cpc' = "lazy_reencoded"
    /\ UNCHANGED <<pkt, wire, dec>>
    /\ UNCHANGED hvars

WireNext == WireDecode \/ WireEncode \/ WireLazyDecode \/ WireLazyEncode

SpecWire == WireInit /\ [][WireNext]_vars

-----------------------------------------------------------------------------
(* Properties of client_handshake *)

AllTimeouts(s) == \A i \in 1..Len(s) : s[i] = TimeoutReply
Front(s) == SubSeq(s, 1, Len(s) - 1)
Last(s) == s[Len(s)]
IsSynReply(r) == IsSome(r.body) /\ Unwrap(r.body).kind = "Syn"
\* send_packet returned an error: the call ended with a SYN that got no receive
SendFailed == pc = "done" /\ Len(sent) > Len(replies)
Returned(r) == pc = "done" /\ result = r
ServerFlags == Unwrap(server_syn).flags

\* C1: with recv_max_retry >= 1, N Timeouts followed by a server SYN whose
\* ENCRYPTED flag equals the client's end the call with Ok, and that happens
\* only for N < recv_max_retry; a call that has seen nothing but Timeouts has
\* seen at most recv_max_retry of them and has returned Timeout exactly when it
\* has seen recv_max_retry.
C1_RetryBound ==
    conn0.recv_max_retry >= 1 =>
        /\ (/\ Len(replies) >= 1
            /\ AllTimeouts(Front(replies))
            /\ IsSynReply(Last(replies))
            /\ (ENCRYPTED \in Unwrap(Last(replies).body).flags) = conn0.encrypted)
           => /\ Returned(OkResult)
              /\ Len(replies) - 1 < conn0.recv_max_retry
        /\ (AllTimeouts(replies) /\ ~SendFailed)
           => /\ Len(replies) <= conn0.recv_max_retry
              /\ (Len(replies) = conn0.recv_max_retry <=> Returned(ErrResult("Timeout")))

C1_Witness ==
    /\ conn0.recv_max_retry = 3
    /\ Len(replies) = 3
    /\ AllTimeouts(Front(replies))
    /\ Returned(OkResult)

\* C2: with recv_max_retry >= 1 the number of SYNs handed to the transport
\* never exceeds recv_max_retry.
C2_SendBound == conn0.recv_max_retry >= 1 => Len(sent) <= conn0.recv_max_retry

C2_Witness ==
    /\ conn0.recv_max_retry >= 2
    /\ Len(sent) = conn0.recv_max_retry
    /\ Returned(ErrResult("Timeout"))

\* C3: after Ok, sess_name is the server's name when the server SYN has one
\* and (the client had none or prefer_server_name), else the client's own.
C3_NameNegotiation ==
    Returned(OkResult) =>
        conn.sess_name =
            IF NAME \in ServerFlags /\ (conn0.sess_name = None \/ prefer_server_name)
            THEN Some(Unwrap(server_syn).sess_name)
            ELSE conn0.sess_name

C3_Witness ==
    /\ Returned(OkResult)
    /\ conn0.sess_name = None
    /\ ~prefer_server_name
    /\ conn.sess_name = Some(SRV)

\* C4: once a server SYN is received the call is over with no further SYN
\* sent; it is Ok exactly when the ENCRYPTED flag equals conn.encrypted and
\* EncryptionMismatch otherwise.
C4_EncryptionMismatch ==
    /\ Returned(OkResult) => IsSome(server_syn)
    /\ IsSome(server_syn) =>
        /\ pc = "done"
        /\ Len(sent) = Len(replies)
        /\ IF (ENCRYPTED \in ServerFlags) = conn0.encrypted
           THEN result = OkResult
           ELSE result = ErrResult("EncryptionMismatch")

C4_Witness ==
    /\ ~conn0.encrypted
    /\ IsSome(server_syn)
    /\ ENCRYPTED \in ServerFlags
    /\ Returned(ErrResult("EncryptionMismatch"))
    /\ Len(sent) < conn0.recv_max_retry

\* C5: a reply body that is not a SYN is the last reply, on whichever attempt,
\* and the call has returned Unexpected with exactly that body and sent no
\* SYN after it.
C5_Unexpected ==
    \A i \in 1..Len(replies) :
        (IsSome(replies[i].body) /\ Unwrap(replies[i].body).kind # "Syn") =>
            /\ i = Len(replies)
            /\ Len(sent) = i
            /\ Returned(UnexpectedResult(Unwrap(replies[i].body)))
            /\ result.body = replies[i].body

C5_Witness ==
    /\ Len(replies) = 2
    /\ Len(replies) < conn0.recv_max_retry
    /\ IsSome(Last(replies).body)
    /\ Unwrap(Last(replies).body).kind = "Fin"
    /\ result.err = "Unexpected"

\* C6: with encrypted = true the call ends with an Err(Unimplemented) value.
C6_UnimplementedIsErr ==
    (conn0.encrypted /\ pc = "done") => (result.kind = "Err" /\ result.err = "Unimplemented")

\* C7: after Ok, command is the COMMAND flag of the server SYN.
C7_CommandFromServer ==
    Returned(OkResult) => conn.command = (COMMAND \in ServerFlags)

C7_Witness ==
    /\ Returned(OkResult)
    /\ conn0.command
    /\ ~conn.command

\* C8: after Ok, peer_seq is the init_seq of the server SYN; self_seq,
\* encrypted and recv_max_retry never change during the call.
C8_PeerSeqFrame ==
    /\ conn.self_seq = conn0.self_seq
    /\ conn.encrypted = conn0.encrypted
    /\ conn.recv_max_retry = conn0.recv_max_retry
    /\ Returned(OkResult) => conn.peer_seq = Unwrap(server_syn).init_seq
    /\ ~Returned(OkResult) => conn.peer_seq = conn0.peer_seq

C8_Witness ==
    /\ Returned(OkResult)
    /\ Len(replies) = 3
    /\ conn.peer_seq = 9
    /\ conn0.peer_seq = 0
    /\ conn.self_seq = 65535

\* C9: an error of recv_packet other than Timeout is the last reply; the call
\* has returned that same error and sent no SYN after it; and any Err result
\* means the call is over.
C9_OtherErrorsEnd ==
    /\ \A i \in 1..Len(replies) :
        (replies[i].err \in RecvErrors) =>
            /\ i = Len(replies)
            /\ Len(sent) = i
            /\ Returned(ErrResult(replies[i].err))
    /\ result.kind = "Err" => pc = "done"

C9_Witness ==
    /\ Len(replies) = 1
    /\ conn0.recv_max_retry = 3
    /\ Last(replies).err = "Transport"
    /\ Returned(ErrResult("Transport"))

-----------------------------------------------------------------------------
(* Properties of the codec *)

NoZero(s) == \A i \in 1..Len(s) : s[i] # 0
\* a hex part that fits the PART_SIZE field and holds no zero byte
FitsPart(part) == 2 * Len(part) <= PART_SIZE /\ NoZero(part)

\* the string fields hold no 0x00 and the hex parts fit their field
Terminable(p) ==
    CASE p.body.kind = "Ping" -> NoZero(p.body.data)
      [] p.body.body.kind = "Syn" -> NoZero(p.body.body.sess_name)
      [] p.body.body.kind = "Msg" -> TRUE
      [] p.body.body.kind = "Fin" -> NoZero(p.body.body.reason)
      [] p.body.body.kind = "Enc" ->
            IF p.body.body.body.kind = "Init"
            THEN FitsPart(p.body.body.body.public_key_x) /\ FitsPart(p.body.body.body.public_key_y)
            ELSE FitsPart(p.body.body.body.authenticator)

RoundTrips == Unwrap(dec) = DecOk(Unwrap(pkt), <<>>)

\* C10 as stated: every packet built with the public constructors decodes
\* from its own encoding to an equal packet, leaving the buffer empty.
C10_RoundTripAnyContent == cpc = "decoded" => RoundTrips

\* C10 amended: the same for every packet whose string fields hold no 0x00
\* byte and whose ENC hex parts hold at most 16 bytes, none of them zero.
C10_RoundTrip == (cpc = "decoded" /\ Terminable(Unwrap(pkt))) => RoundTrips

C10_Witness ==
    /\ cpc = "decoded"
    /\ Unwrap(pkt).id = 4660
    /\ Unwrap(pkt).body.kind = "Session"
    /\ Unwrap(pkt).body.body.kind = "Enc"
    /\ Unwrap(pkt).body.body.body.kind = "Init"
    /\ Len(Unwrap(pkt).body.body.body.public_key_x) = 15
    /\ Len(Unwrap(pkt).body.body.body.public_key_y) = 16
    /\ Terminable(Unwrap(pkt))
    /\ RoundTrips

-----------------------------------------------------------------------------
(* Properties of the codec on received bytes *)

Decoded == Unwrap(dec)
DecPkt == Unwrap(Decoded.val)
IsSessionPkt(p) == p.body.kind = "Session"
HasEncPart(p) == IsSessionPkt(p) /\ p.body.body.kind = "Enc"
IsSynPkt(p) == IsSessionPkt(p) /\ p.body.body.kind = "Syn"
\* the received bytes are a SYN packet up to and including the flags field
SynOnWire == Len(wire) >= 9 /\ wire[3] = 0
WireFlags == wire[8] * 256 + wire[9]

\* C11 as stated: whenever the strict decoder accepts the bytes and the
\* packet has no ENC hex part, encoding the decoded packet gives the bytes back.
C11_ReencodeAnyAccepted ==
    (cpc = "reencoded" /\ ~HasEncPart(DecPkt)) => out = wire

\* C11 amended: the same for bytes the decoder consumes to the end and, for a
\* SYN, whose flags field has no bit outside 0x007F.
C11_Reencode ==
    (/\ cpc = "reencoded"
     /\ ~HasEncPart(DecPkt)
     /\ Decoded.rest = <<>>
     /\ (IsSynPkt(DecPkt) => WireFlags < 128))
    => out = wire

C11_Witness ==
    /\ cpc = "reencoded"
    /\ IsSynPkt(DecPkt)
    /\ WireFlags = 127
    /\ DecPkt.body.body.sess_name = <<195, 169>>
    /\ out = wire

\* C12: a SYN flags field f decodes to the flags f AND 0x007F, decoding fails
\* only for want of a valid terminated name when NAME is set, and the flags
\* field written on encoding again is f AND 0x007F.
C12_FlagTruncation ==
    SynOnWire =>
        /\ (cpc \in {"decoded", "reencoded"} /\ Decoded.ok) =>
              /\ DecPkt.body.body.flags \subseteq {1, 2, 4, 8, 16, 32, 64}
              /\ Bits(DecPkt.body.body.flags) = WireFlags % 128
        /\ (cpc = "decoded" /\ ~Decoded.ok) =>
              /\ Decoded.err \in {"NoNullTerm", "Utf8"}
              /\ WireFlags % 2 = 1
        /\ cpc = "reencoded" =>
              /\ out[8] = 0
              /\ out[9] = WireFlags % 128

C12_Witness ==
    /\ SynOnWire
    /\ cpc = "reencoded"
    /\ WireFlags = 65535
    /\ out[8] = 0
    /\ out[9] = 127

-----------------------------------------------------------------------------
(* Properties of the bytes the encoder writes *)

Built == Unwrap(pkt)
BeBytes(v) == <<v \div 256, v % 256>>
\* the hex parts of an ENC body in the order they are written
EncParts(e) ==
    IF e.body.kind = "Init"
    THEN <<e.body.public_key_x, e.body.public_key_y>>
    ELSE <<e.body.authenticator>>
\* the k-th 32-byte field after packet id, kind, session id, ENC kind and crypto flags
PartField(k) == SubSeq(wire, 9 + 32 * (k - 1), 8 + 32 * k)
EncWritten == cpc \in {"encoded", "decoded"} /\ HasEncPart(Built)
LowerHexDigit(c) == c \in 48..57 \cup 97..102
DigitVal(c) == IF c <= 57 THEN c - 48 ELSE c - 87
\* the first 2n bytes of the field are the lowercase hex digits of the part
HexPrefix(field, part) ==
    \A i \in 1..Len(part) :
        /\ LowerHexDigit(field[2 * i - 1]) /\ LowerHexDigit(field[2 * i])
        /\ 16 * DigitVal(field[2 * i - 1]) + DigitVal(field[2 * i]) = part[i]

C14_PartRoundTrip ==
    (EncWritten /\ \A k \in 1..Len(EncParts(Built.body.body)) : FitsPart(EncParts(Built.body.body)[k]))
    =>
        /\ Len(wire) = 8 + (IF Built.body.body.body.kind = "Init" THEN 64 ELSE 32)
        /\ \A k \in 1..Len(EncParts(Built.body.body)) :
                HexPrefix(PartField(k), EncParts(Built.body.body)[k])
        /\ cpc = "decoded" =>
                /\ Decoded.ok
                /\ Decoded.rest = <<>>
                /\ HasEncPart(DecPkt)
                /\ EncParts(DecPkt.body.body) = EncParts(Built.body.body)

C14_Witness ==
    /\ cpc = "decoded"
    /\ HasEncPart(Built)
    /\ Built.body.body.body.kind = "Init"
    /\ Built.body.body.body.public_key_x = Rep(3, 15)
    /\ Built.body.body.body.public_key_y = Rep(171, 16)
    /\ Len(wire) = 72
    /\ PartField(2)[1] = 97 /\ PartField(2)[2] = 98
    /\ Decoded.ok
    /\ EncParts(DecPkt.body.body) = <<Rep(3, 15), Rep(171, 16)>>

\* C15: the encoder writes the big-endian session id right after the kind
\* byte exactly for SYN, MSG, FIN and ENC, and the decoder returns that id;
\* for PING the ping id follows the kind byte and no session id is written or read.
C15_SessionFraming ==
    cpc \in {"encoded", "decoded"} =>
        /\ Len(wire) >= 5
        /\ IsSessionPkt(Built) <=> wire[3] \in {0, 1, 2, 3}
        /\ IsSessionPkt(Built) =>
              /\ SubSeq(wire, 4, 5) = BeBytes(Built.body.id)
              /\ SubSeq(wire, 6, Len(wire)) = SessionBodyEncode(Built.body.body)
              /\ cpc = "decoded" =>
                    /\ Decoded.ok
                    /\ IsSessionPkt(DecPkt)
                    /\ DecPkt.body.id = Built.body.id
        /\ ~IsSessionPkt(Built) =>
              /\ wire[3] = 255
              /\ SubSeq(wire, 4, 5) = BeBytes(Built.body.ping_id)
              /\ Len(wire) = 3 + 2 + Len(Built.body.data) + 1
              /\ cpc = "decoded" =>
                    /\ Decoded.ok
                    /\ DecPkt.body.kind = "Ping"
                    /\ DecPkt.body.ping_id = Built.body.ping_id

C15_Witness ==
    /\ cpc = "decoded"
    /\ IsSessionPkt(Built)
    /\ Built.body.id = 65534
    /\ Built.body.body.kind = "Msg"
    /\ wire[4] = 255 /\ wire[5] = 254
    /\ Decoded.ok
    /\ DecPkt.body.id = 65534

-----------------------------------------------------------------------------
(* Properties of the strict and the lazy decoder *)

\* the received bytes reach a kind byte that no supported kind has
OtherOnWire == Len(wire) >= 3 /\ wire[3] \notin {0, 1, 2, 3, 255}
\* packet id, a session-framed kind byte and a session id, then any bytes
FramedOnWire == Len(wire) >= 5 /\ wire[3] \in {0, 1, 2, 3}

\* C16: for a kind byte k other than 0x00, 0x01, 0x02, 0x03 and 0xFF both the
\* strict and the lazy decoder fail with UnknownKind(k); no packet is yielded.
C16_UnknownKindRejected ==
    OtherOnWire =>
        /\ cpc \in {"bytes", "decoded", "lazy_decoded"}
        /\ cpc \in {"decoded", "lazy_decoded"} =>
              /\ ~Decoded.ok
              /\ Decoded.val = None
              /\ Decoded.err = "UnknownKind"
              /\ Decoded.arg = wire[3]

C16_Witness ==
    /\ OtherOnWire
    /\ wire[3] = 254
    /\ Len(wire) > 3
    /\ cpc = "lazy_decoded"
    /\ Decoded.err = "UnknownKind"
    /\ Decoded.arg = 254

\* C17: the lazy decoder accepts packet id, a kind byte of SYN, MSG, FIN or
\* ENC, a session id and any body bytes; it keeps the kind and all the bytes
\* after the session id, leaves the buffer empty, and the lazy packet encodes
\* to the input bytes.
C17_LazyVerbatim ==
    (FramedOnWire /\ cpc \in {"lazy_decoded", "lazy_reencoded"}) =>
        /\ Decoded.ok
        /\ Decoded.rest = <<>>
        /\ BeBytes(DecPkt.id) = SubSeq(wire, 1, 2)
        /\ IsSessionPkt(DecPkt)
        /\ BeBytes(DecPkt.body.id) = SubSeq(wire, 4, 5)
        /\ DecPkt.body.body.pkind.tag = <<"SYN", "MSG", "FIN", "ENC">>[wire[3] + 1]
        /\ DecPkt.body.body.bytes = SubSeq(wire, 6, Len(wire))
        /\ cpc = "lazy_reencoded" => out = wire

C17_Witness ==
    /\ FramedOnWire
    /\ cpc = "lazy_reencoded"
    /\ wire[3] = 0
    /\ ~PacketDecode(wire).ok
    /\ DecPkt.body.body.bytes = <<0, 9, 0, 1, 115>>
    /\ out = wire

\* C18: a SYN that was decoded and is encoded again is written with none of
\* the deprecated flag bits TUNNEL, DATAGRAM, DOWNLOAD, CHUNKED_DOWNLOAD.
C18_NoDeprecatedBits ==
    (cpc = "reencoded" /\ IsSynPkt(DecPkt)) =>
        \A f \in {TUNNEL, DATAGRAM, DOWNLOAD, CHUCKED_DOWNLOAD} : (out[9] \div f) % 2 = 0

\* C19: a decoded SynBody has a session name exactly when NAME is set, and a
\* session name that is present is not empty.
C19_NameInvariant ==
    (cpc \in {"decoded", "reencoded"} /\ Decoded.ok /\ IsSynPkt(DecPkt)) =>
        /\ IsSome(SessionName(DecPkt.body.body)) <=> NAME \in DecPkt.body.body.flags
        /\ IsSome(SessionName(DecPkt.body.body)) => Unwrap(SessionName(DecPkt.body.body)) # EmptyStr

\* C20: every SYN handed to send_packet has init_seq = self_seq, the flags
\* COMMAND, ENCRYPTED and NAME exactly as the connection has command,
\* encrypted and a session name, no other flag, and the connection's name.
C20_ClientSynContents ==
    \A i \in 1..Len(sent) :
        /\ sent[i].init_seq = conn0.self_seq
        /\ \A f \in sent[i].flags : f \in {COMMAND, ENCRYPTED, NAME}
        /\ COMMAND \in sent[i].flags <=> conn0.command
        /\ ENCRYPTED \in sent[i].flags <=> conn0.encrypted
        /\ NAME \in sent[i].flags <=> IsSome(conn0.sess_name)
        /\ SessionName(sent[i]) = conn0.sess_name

C20_Witness ==
    /\ Len(sent) = 2
    /\ conn0.command
    /\ conn0.sess_name = Some(CLT)
    /\ conn0.self_seq = 65535
    /\ sent[2].init_seq = 65535
    /\ sent[2].flags = {NAME, COMMAND}
    /\ sent[2].sess_name = CLT

-----------------------------------------------------------------------------
(* Properties of the handshake's exchange discipline *)

\* C21: all SYN bodies sent within one call are equal, and no field of the
\* connection is modified before a server SYN has been received, whatever
\* number of Timeout retries happen.
C21_SameSynOnRetry ==
    /\ \A i \in 1..Len(sent) : \A j \in 1..Len(sent) : sent[i] = sent[j]
    /\ IsNone(server_syn) => conn = conn0

C21_Witness ==
    /\ Len(sent) = 3
    /\ AllTimeouts(Front(replies))
    /\ IsSome(server_syn)
    /\ sent[1] = sent[3]
    /\ sent[2] = sent[3]
    /\ conn # conn0

\* C22 as stated: a SYN is sent only when every earlier SYN has had its
\* receive completed, and the call never ends with a SYN handed to the
\* transport after the last completed receive.
C22_AlternateAlways ==
    /\ Len(sent) \in {Len(replies), Len(replies) + 1}
    /\ pc = "send" => Len(sent) = Len(replies)
    /\ pc = "recv" => Len(sent) = Len(replies) + 1
    /\ pc = "done" => Len(sent) = Len(replies)

\* C22 amended: a SYN is sent only when every earlier SYN has had its receive
\* completed, and the call ends with a SYN handed to the transport after the
\* last completed receive only with the error send_packet returned for it.
C22_Alternate ==
    /\ Len(sent) \in {Len(replies), Len(replies) + 1}
    /\ pc = "send" => Len(sent) = Len(replies)
    /\ pc = "recv" => Len(sent) = Len(replies) + 1
    /\ (pc = "done" /\ Len(sent) # Len(replies)) =>
          /\ result.kind = "Err"
          /\ result.err \in SendErrors
          /\ result.body = None
          /\ IsNone(server_syn)
          /\ conn = conn0

C22_Witness ==
    /\ pc = "done"
    /\ Len(sent) = 3
    /\ Len(replies) = 2
    /\ AllTimeouts(replies)
    /\ result = ErrResult("Transport")

\* C23: the call ends with Timeout only when recv_max_retry attempts have
\* been made, whichever half of the exchange the Timeout came from.
C23_TimeoutRetried ==
    Returned(ErrResult("Timeout")) => attempt >= conn0.recv_max_retry

\* C24: the number of SYNs handed to the transport never exceeds
\* max(1, recv_max_retry), recv_max_retry = 0 included.
C24_SendsBounded ==
    Len(sent) <= (IF conn0.recv_max_retry >= 1 THEN conn0.recv_max_retry ELSE 1)

\* C25: after Ok the connection's session name is absent or nonempty, so a
\* SYN built again from the connection passes set_session_name's assertion.
C25_NameNonemptyAfterOk ==
    Returned(OkResult) =>
        /\ IsSome(conn.sess_name) => Unwrap(conn.sess_name) # EmptyStr
        /\ ~(IsSome(conn.sess_name) /\ SetSessionNamePanics(Unwrap(conn.sess_name)))

\* C26: with conn.encrypted the encryption handshake step is taken first and
\* never skipped: the SYN loop is not entered, nothing is handed to the
\* transport or received, and the call never returns Ok.
C26_EncryptedNeverSends ==
    conn0.encrypted =>
        /\ pc \in {"start", "done"}
        /\ attempt = 0
        /\ sent = <<>>
        /\ replies = <<>>
        /\ result.kind # "Ok"
        /\ pc = "done" => result.kind = "Panic"

C26_Witness ==
    /\ conn0.encrypted
    /\ pc = "done"
    /\ result = PanicResult("not implemented")
    /\ sent = <<>>

====
